---- MODULE Spec2Model ----
(***************************************************************************)
(* Model of yt_batch_download.py: the filename sanitizer, the CSV reader   *)
(* (a generator), the per-entry download step and the orchestration loop   *)
(* of main().  Strings are sequences of one-character strings.             *)
(***************************************************************************)
EXTENDS Integers, Sequences, FiniteSets, TLC

VARIABLES
    pc,         \* position of main(): "start", "loop", "body", "done", "fatal" ("idle": not run)
    overwrite,  \* args.overwrite
    csv_file,   \* the input file: can it be opened, the sniffer's verdict, the header row
    rows_read,  \* number of data rows the csv reader has consumed
    entries,    \* the (name, url) pairs yielded by read_rows so far
    status,     \* status[i]: "pending", "skipped", "downloaded" or "failed" for entries[i]
    listing,    \* names of the files in out_dir
    count,      \* main()'s counter
    exit_code,  \* -1 while running, then the process exit code
    stderr,     \* messages printed to sys.stderr
    stdout,     \* messages printed to sys.stdout
    ydl_calls,  \* indices of the entries for which ydl.download was invoked, in order
    x,          \* sanitizer harness: the input string
    y,          \* sanitizer harness: sanitize_filename(x)
    z,          \* sanitizer harness: sanitize_filename(y)
    san_pc      \* sanitizer harness: "in", "once", "twice" ("idle": not run)

vars == <<pc, overwrite, csv_file, rows_read, entries, status, listing, count,
          exit_code, stderr, stdout, ydl_calls, x, y, z, san_pc>>

mainVars == <<pc, overwrite, csv_file, rows_read, entries, status, listing, count,
              exit_code, stderr, stdout, ydl_calls>>

sanVars == <<x, y, z, san_pc>>

----------------------------------------------------------------------------
(* Bounds *)

MaxRows == 3

MaxSuffix == 3

----------------------------------------------------------------------------
(* Strings *)

\* the characters str.strip() and the regex class \s treat as whitespace
Whitespace == {" ", "\t"}

INVALID_CHARS == {"<", ">", ":", "\"", "/", "\\", "|", "?", "*"}

MAX_LEN == 180

video == <<"v", "i", "d", "e", "o">>

RECURSIVE lskip(_, _, _)
\* index of the first character of s at or after i that is not in cs (Len(s)+1 if none)
lskip(s, i, cs) ==
    IF i <= Len(s) /\ s[i] \in cs THEN lskip(s, i + 1, cs) ELSE i

RECURSIVE rskip(_, _, _)
\* index of the last character of s at or before i that is not in cs (0 if none)
rskip(s, i, cs) ==
    IF i >= 1 /\ s[i] \in cs THEN rskip(s, i - 1, cs) ELSE i

\* str.rstrip(chars)
rstrip(s, cs) == SubSeq(s, 1, rskip(s, Len(s), cs))

\* str.strip()
strip(s) == SubSeq(s, lskip(s, 1, Whitespace), rskip(s, Len(s), Whitespace))

\* re.sub(r"[<>:\"/\\|?*]", "_", s)
replace_invalid(s) == [i \in 1..Len(s) |-> IF s[i] \in INVALID_CHARS THEN "_" ELSE s[i]]

\* re.sub(r"\s+", " ", s): every maximal run of whitespace becomes one space
collapse_ws(s) ==
    LET marked == [i \in 1..Len(s) |->
                     IF s[i] \in Whitespace
                     THEN IF i > 1 /\ s[i - 1] \in Whitespace THEN <<" ", TRUE>>
                                                              ELSE <<" ", FALSE>>
                     ELSE <<s[i], FALSE>>]
        keep(p) == ~p[2]
        kept    == SelectSeq(marked, keep)
    IN  [i \in 1..Len(kept) |-> kept[i][1]]

\* variant: the trailing-character strip removes spaces only
sanitize_filename_keep_periods(name, max_len) ==
    CHOOSE r \in
      {IF n5 = <<>> THEN video ELSE n5 :
         n5 \in {IF Len(n4) > max_len THEN rstrip(SubSeq(n4, 1, max_len), Whitespace) ELSE n4 :
           n4 \in {rstrip(n3, {" "}) :
             n3 \in {collapse_ws(n2) :
               n2 \in {replace_invalid(n1) :
                 n1 \in {strip(n0) : n0 \in {name}}}}}}} : TRUE

\* variant: the length limit is applied one character late
sanitize_filename_off_by_one(name, max_len) ==
    CHOOSE r \in
      {IF n5 = <<>> THEN video ELSE n5 :
         n5 \in {IF Len(n4) > max_len + 1 THEN rstrip(SubSeq(n4, 1, max_len + 1), Whitespace) ELSE n4 :
           n4 \in {rstrip(n3, {" ", "."}) :
             n3 \in {collapse_ws(n2) :
               n2 \in {replace_invalid(n1) :
                 n1 \in {strip(n0) : n0 \in {name}}}}}}} : TRUE

\* each step is bound to its value before the next step uses it
sanitize_filename(name, max_len) ==
    CHOOSE r \in
      {IF n5 = <<>> THEN video ELSE n5 :
         n5 \in {IF Len(n4) > max_len THEN rstrip(SubSeq(n4, 1, max_len), Whitespace) ELSE n4 :
           n4 \in {rstrip(n3, {" ", "."}) :
             n3 \in {collapse_ws(n2) :
               n2 \in {replace_invalid(n1) :
                 n1 \in {strip(n0) : n0 \in {name}}}}}}} : TRUE

----------------------------------------------------------------------------
(* Sanitizer harness: the inputs are a run of one repeated character       *)
(* followed by an arbitrary short suffix, so that both short strings and   *)
(* strings around the length limit occur.                                  *)

Alphabet == {"a", " ", "\t", "."} \cup INVALID_CHARS

PadChars == {"a", ".", "?"}

PadLens == {MAX_LEN - 1, MAX_LEN}

Suffixes == UNION {[1..n -> Alphabet] : n \in 0..MaxSuffix}

Pad(c, k) == [i \in 1..k |-> c]

Inputs == Suffixes \cup {Pad(c, k) \o s : c \in PadChars, k \in PadLens, s \in Suffixes}

mainIdle ==
    /\ pc = "idle"
    /\ overwrite = FALSE
    /\ csv_file = [openable |-> FALSE, has_header |-> FALSE, fieldnames |-> <<>>]
    /\ rows_read = 0
    /\ entries = <<>>
    /\ status = <<>>
    /\ listing = {}
    /\ count = 0
    /\ exit_code = -1
    /\ stderr = <<>>
    /\ stdout = <<>>
    /\ ydl_calls = <<>>

InitSan ==
    /\ mainIdle
    /\ x \in Inputs
    /\ y = <<>>
    /\ z = <<>>
    /\ san_pc = "in"

SanitizeOnce ==
    /\ san_pc = "in"
    /\ y' = sanitize_filename(x, MAX_LEN)
    /\ san_pc' = "once"
    /\ UNCHANGED <<x, z>>
    /\ UNCHANGED mainVars

SanitizeTwice ==
    /\ san_pc = "once"
    /\ z' = sanitize_filename(y, MAX_LEN)
    /\ san_pc' = "twice"
    /\ UNCHANGED <<x, y>>
    /\ UNCHANGED mainVars

NextSan == SanitizeOnce \/ SanitizeTwice

SpecSan == InitSan /\ [][NextSan]_vars

----------------------------------------------------------------------------
(* Column resolution *)

NAME_KEYS == {"name", "title", "video_name"}

URL_KEYS == {"link", "url", "video_url"}

None == "<None>"

\* str.lower() on the field names that occur in the header samples
lower(f) ==
    CASE f = "Title" -> "title"
      [] f = "Link"  -> "link"
      [] f = "URL"   -> "url"
      [] f = "NAME"  -> "name"
      [] OTHER       -> f

\* next((f for f in fieldnames if f.lower() in keys), None)
first_in(fieldnames, keys) ==
    LET idx == {i \in 1..Len(fieldnames) : lower(fieldnames[i]) \in keys}
    IN  IF idx = {} THEN None
        ELSE fieldnames[CHOOSE i \in idx : \A j \in idx : i <= j]

\* variant: the name column falls back to the first field
find_columns_fallback(fieldnames) ==
    <<IF first_in(fieldnames, NAME_KEYS) = None /\ fieldnames # <<>>
      THEN fieldnames[1] ELSE first_in(fieldnames, NAME_KEYS),
      first_in(fieldnames, URL_KEYS)>>

find_columns(fieldnames) ==
    <<first_in(fieldnames, NAME_KEYS), first_in(fieldnames, URL_KEYS)>>

----------------------------------------------------------------------------
(* Output directory listing and Path.glob *)

EXT == <<".", "m", "p", "4">>

RECURSIVE class_end(_, _)
\* fnmatch.translate: position of the "]" that closes a class whose scan is at j
class_end(pat, j) ==
    IF j <= Len(pat) /\ pat[j] # "]" THEN class_end(pat, j + 1) ELSE j

RECURSIVE translate(_, _)
\* fnmatch.translate: the pattern from position i on, as a sequence of matchers
translate(pat, i) ==
    IF i > Len(pat) THEN <<>>
    ELSE IF pat[i] = "*" THEN <<[t |-> "star", cs |-> {}]>> \o translate(pat, i + 1)
    ELSE IF pat[i] = "?" THEN <<[t |-> "any", cs |-> {}]>> \o translate(pat, i + 1)
    ELSE IF pat[i] = "["
         THEN LET j0 == i + 1
                  j1 == IF j0 <= Len(pat) /\ pat[j0] = "!" THEN j0 + 1 ELSE j0
                  j2 == IF j1 <= Len(pat) /\ pat[j1] = "]" THEN j1 + 1 ELSE j1
                  j  == class_end(pat, j2)
              IN  IF j > Len(pat)
                  THEN <<[t |-> "in", cs |-> {"["}]>> \o translate(pat, i + 1)
                  ELSE IF pat[j0] = "!"
                       THEN <<[t |-> "notin", cs |-> {pat[k] : k \in (j0 + 1)..(j - 1)}]>>
                            \o translate(pat, j + 1)
                       ELSE <<[t |-> "in", cs |-> {pat[k] : k \in j0..(j - 1)}]>>
                            \o translate(pat, j + 1)
    ELSE <<[t |-> "in", cs |-> {pat[i]}]>> \o translate(pat, i + 1)

RECURSIVE fullmatch(_, _, _, _)
\* re.fullmatch of the translated pattern, from matcher i and character j on
fullmatch(m, i, f, j) ==
    IF i > Len(m) THEN j > Len(f)
    ELSE IF m[i].t = "star" THEN \E k \in j..(Len(f) + 1) : fullmatch(m, i + 1, f, k)
    ELSE /\ j <= Len(f)
         /\ CASE m[i].t = "any"   -> TRUE
              [] m[i].t = "in"    -> f[j] \in m[i].cs
              [] m[i].t = "notin" -> f[j] \notin m[i].cs
         /\ fullmatch(m, i + 1, f, j + 1)

\* list(out_dir.glob(pattern)), as a set of file names
glob(files, pattern) ==
    UNION {{f \in files : fullmatch(m, 1, f, 1)} :
             m \in {translate(pat, 1) : pat \in {pattern}}}

\* ydl.download([url]) with outtmpl <out_dir>/<safe_name>.%(ext)s: on success the
\* file <safe_name>.mp4 is in the directory; a failure raises and leaves no file
YoutubeDL_download(files, safe_name, outcome) ==
    IF outcome = "ok" THEN files \cup {safe_name \o EXT} ELSE files

\* variant: a failed download is retried once before the exception is raised
download_video_retry(files, desired_name, ow, outcome) ==
    CHOOSE r \in UNION
      {{IF existing # {} /\ ~ow
        THEN [result |-> "skipped", files |-> files, calls |-> 0, safe_name |-> safe_name]
        ELSE [result |-> IF outcome = "ok" THEN "downloaded" ELSE "raise",
              files  |-> YoutubeDL_download(files, safe_name, outcome),
              calls  |-> IF outcome = "ok" THEN 1 ELSE 2,
              safe_name |-> safe_name] :
          existing \in {glob(files, safe_name \o <<".", "*">>)}} :
         safe_name \in {sanitize_filename(desired_name, MAX_LEN)}} : TRUE

\* safe_name and existing are bound to their values before the test uses them
download_video(files, desired_name, ow, outcome) ==
    CHOOSE r \in UNION
      {{IF existing # {} /\ ~ow
        THEN [result |-> "skipped", files |-> files, calls |-> 0, safe_name |-> safe_name]
        ELSE [result |-> IF outcome = "ok" THEN "downloaded" ELSE "raise",
              files  |-> YoutubeDL_download(files, safe_name, outcome),
              calls  |-> 1,
              safe_name |-> safe_name] :
          existing \in {glob(files, safe_name \o <<".", "*">>)}} :
         safe_name \in {sanitize_filename(desired_name, MAX_LEN)}} : TRUE

----------------------------------------------------------------------------
(* Inputs *)

A == <<"a">>

AB == <<"a", "[", "b", "]">>

U == <<"u">>

FileSamples ==
    {[openable |-> FALSE, has_header |-> FALSE, fieldnames |-> <<>>],
     [openable |-> TRUE,  has_header |-> FALSE, fieldnames |-> <<>>],
     [openable |-> TRUE,  has_header |-> TRUE,  fieldnames |-> <<"Title", "Link">>],
     [openable |-> TRUE,  has_header |-> TRUE,  fieldnames |-> <<"URL", "NAME">>],
     [openable |-> TRUE,  has_header |-> TRUE,  fieldnames |-> <<"id", "url">>],
     [openable |-> TRUE,  has_header |-> TRUE,  fieldnames |-> <<"name", "href">>]}

\* rows as the csv reader returns them: lists of cells
RowSamples == {<<A, U>>, <<AB, U>>, <<A>>, <<<<" ">>, U>>, <<>>}

ListingSamples == {{}, {A \o EXT}, {<<"a", "b">> \o EXT}, {AB \o EXT}}

Outcomes == {"ok", "raise"}

msg(kind, name, url, n) == [kind |-> kind, name |-> name, url |-> url, n |-> n]

----------------------------------------------------------------------------
(* main() and the read_rows generator *)

Init ==
    /\ pc = "start"
    /\ overwrite \in BOOLEAN
    /\ csv_file \in FileSamples
    /\ rows_read = 0
    /\ entries = <<>>
    /\ status = <<>>
    /\ listing \in ListingSamples
    /\ count = 0
    /\ exit_code = -1
    /\ stderr = <<>>
    /\ stdout = <<>>
    /\ ydl_calls = <<>>
    /\ x = <<>>
    /\ y = <<>>
    /\ z = <<>>
    /\ san_pc = "idle"

\* variant: the outer handler prints the message and falls through to a normal return
main_fatal_no_exit(cause, found) ==
    /\ stderr' = Append(stderr, msg("fatal", cause, found, 0))
    /\ exit_code' = 0
    /\ pc' = "fatal"

\* main's outer handler: except Exception as e: print [fatal]; sys.exit(1)
main_fatal(cause, found) ==
    /\ stderr' = Append(stderr, msg("fatal", cause, found, 0))
    /\ exit_code' = 1
    /\ pc' = "fatal"

\* read_rows up to its row loop: open, sniff, resolve the columns
read_rows_open ==
    /\ pc = "start"
    /\ IF ~csv_file.openable
       THEN main_fatal("open", <<>>)
       ELSE IF csv_file.has_header
                 /\ None \in {find_columns(csv_file.fieldnames)[1],
                              find_columns(csv_file.fieldnames)[2]}
            THEN main_fatal("columns", csv_file.fieldnames)
            ELSE /\ pc' = "loop"
                 /\ UNCHANGED <<stderr, exit_code>>
    /\ UNCHANGED <<overwrite, csv_file, rows_read, entries, status, listing, count,
                   stdout, ydl_calls>>
    /\ UNCHANGED sanVars

\* row.get(col) or "" on the dict a DictReader builds from fieldnames and row
row_get(fieldnames, row, col) ==
    LET idx == {i \in 1..Len(fieldnames) : fieldnames[i] = col}
        i   == CHOOSE k \in idx : \A j \in idx : j <= k
    IN  IF i <= Len(row) THEN row[i] ELSE <<>>

\* one iteration of the row loop of read_rows:
\* "skip" (silently), "short" (logged and skipped) or "yield" with the entry
read_row(file, row) ==
    IF file.has_header
    THEN LET cols == find_columns(file.fieldnames)
             name == strip(row_get(file.fieldnames, row, cols[1]))
             url  == strip(row_get(file.fieldnames, row, cols[2]))
         IN  IF row # <<>> /\ name # <<>> /\ url # <<>>
             THEN [act |-> "yield", name |-> name, url |-> url]
             ELSE [act |-> "skip", name |-> <<>>, url |-> <<>>]
    ELSE IF Len(row) < 2
         THEN [act |-> "short", name |-> <<>>, url |-> <<>>]
         ELSE LET name == strip(row[1])
                  url  == strip(row[2])
              IN  IF name # <<>> /\ url # <<>>
                  THEN [act |-> "yield", name |-> name, url |-> url]
                  ELSE [act |-> "skip", name |-> <<>>, url |-> <<>>]

read_rows_next ==
    /\ pc = "loop"
    /\ rows_read < MaxRows
    /\ \E row \in RowSamples :
         LET r == read_row(csv_file, row) IN
         /\ rows_read' = rows_read + 1
         /\ IF r.act = "yield"
            THEN /\ entries' = Append(entries, [name |-> r.name, url |-> r.url])
                 /\ status' = Append(status, "pending")
                 /\ pc' = "body"
                 /\ UNCHANGED stderr
            ELSE /\ stderr' = IF r.act = "short"
                              THEN Append(stderr, msg("row", <<>>, <<>>, rows_read + 1))
                              ELSE stderr
                 /\ UNCHANGED <<entries, status, pc>>
    /\ UNCHANGED <<overwrite, csv_file, listing, count, exit_code, stdout, ydl_calls>>
    /\ UNCHANGED sanVars

\* the csv reader raises while iterating (csv.Error, UnicodeDecodeError)
read_rows_error ==
    /\ pc = "loop"
    /\ rows_read < MaxRows
    /\ main_fatal("parse", <<>>)
    /\ UNCHANGED <<overwrite, csv_file, rows_read, entries, status, listing, count,
                   stdout, ydl_calls>>
    /\ UNCHANGED sanVars

\* variant: no inner try/except, the exception reaches the outer handler
main_item_uncaught(result) ==
    IF result = "raise"
    THEN [counted |-> FALSE, logged |-> FALSE, propagate |-> TRUE]
    ELSE [counted |-> TRUE,  logged |-> FALSE, propagate |-> FALSE]

\* main's inner try/except around download_video, for the result of the call
main_item(result) ==
    IF result = "raise"
    THEN [counted |-> FALSE, logged |-> TRUE,  propagate |-> FALSE]
    ELSE [counted |-> TRUE,  logged |-> FALSE, propagate |-> FALSE]

\* the body of main's loop for the entry just yielded
main_body ==
    /\ pc = "body"
    /\ \E outcome \in Outcomes :
       \E d \in {download_video(listing, entries[Len(entries)].name, overwrite, outcome)} :
         LET i == Len(entries)
             e == entries[i]
             h == main_item(d.result)
         IN  /\ listing' = d.files
             /\ ydl_calls' = ydl_calls \o [k \in 1..d.calls |-> i]
             /\ status' = [status EXCEPT ![i] = IF d.result = "raise" THEN "failed"
                                                ELSE d.result]
             /\ stdout' = IF d.result = "skipped"
                          THEN Append(stdout, msg("skip", d.safe_name, <<>>, 0))
                          ELSE Append(stdout, msg("download", d.safe_name, e.url, 0))
             /\ count' = IF h.counted THEN count + 1 ELSE count
             /\ IF h.propagate
                THEN main_fatal("download", <<>>)
                ELSE /\ stderr' = IF h.logged
                                  THEN Append(stderr, msg("error", e.name, e.url, 0))
                                  ELSE stderr
                     /\ pc' = "loop"
                     /\ UNCHANGED exit_code
    /\ UNCHANGED <<overwrite, csv_file, rows_read, entries>>
    /\ UNCHANGED sanVars

\* the generator is exhausted: print the summary and return
main_done ==
    /\ pc = "loop"
    /\ stdout' = Append(stdout, msg("done", <<>>, <<>>, count))
    /\ exit_code' = 0
    /\ pc' = "done"
    /\ UNCHANGED <<overwrite, csv_file, rows_read, entries, status, listing, count,
                   stderr, ydl_calls>>
    /\ UNCHANGED sanVars

Next ==
    \/ read_rows_open
    \/ read_rows_next
    \/ read_rows_error
    \/ main_body
    \/ main_done

Spec == Init /\ [][Next]_vars

\* the process is single-threaded and runs to completion
FairSpec == Spec /\ WF_vars(Next)

----------------------------------------------------------------------------
(* Properties *)

Terminal == {"skipped", "downloaded", "failed"}

Range(s) == {s[i] : i \in 1..Len(s)}

\* the base name download_video derives for entry i
safe_of(i) == sanitize_filename(entries[i].name, MAX_LEN)

\* f starts with the string p
starts_with(f, p) == Len(f) >= Len(p) /\ SubSeq(f, 1, Len(p)) = p

\* the cause named by the last message on stderr, when that message is a fatal one
fatal_cause == IF stderr # <<>> /\ stderr[Len(stderr)].kind = "fatal"
               THEN stderr[Len(stderr)].name ELSE "none"

\* C1: the number in the summary line equals the number of entries the reader
\* yielded, failed entries included.
C1_SummaryCountsEveryEntry ==
    \A k \in 1..Len(stdout) : stdout[k].kind = "done" => stdout[k].n = Len(entries)

\* C2: an exception raised by the download of an entry is caught and logged and the
\* loop goes on to read the next entry; the run ends, and when it ends with the
\* summary line every entry is in a terminal state; only the reader aborts a run.
C2_FailureDoesNotStopTheBatch ==
    /\ [][pc = "body" =>
            /\ pc' = "loop"
            /\ status'[Len(status)] \in Terminal
            /\ status'[Len(status)] = "failed" =>
                 stderr' = Append(stderr, msg("error", entries[Len(entries)].name,
                                              entries[Len(entries)].url, 0))]_vars
    /\ [](pc = "body" => <>(pc = "loop"))
    /\ <>(pc \in {"done", "fatal"})
    /\ [](pc = "done" => \A i \in 1..Len(status) : status[i] \in Terminal)
    /\ [](pc = "fatal" => fatal_cause \in {"open", "columns", "parse"})

\* an entry was attempted and processed to the end after an earlier entry had failed
C2_Witness ==
    /\ pc = "done"
    /\ \E i, j \in 1..Len(status) :
         i < j /\ status[i] = "failed" /\ j \in Range(ydl_calls) /\ status[j] \in Terminal

\* C3: the download capability is invoked for an entry iff overwrite is on or no
\* file of the directory starts with the entry's sanitized base name and a period;
\* a skipped entry is counted.
C3_InvokedIffNoFileWithBaseName ==
    [][pc = "body" =>
         LET i == Len(entries)
             has == \E f \in listing : starts_with(f, safe_of(i) \o <<".">>)
         IN  /\ (i \in Range(ydl_calls')) <=> (overwrite \/ ~has)
             /\ status'[i] = "skipped" => count' = count + 1]_vars

\* C4: sanitizing a sanitized name changes nothing.
C4_Idempotent == san_pc = "twice" => z = y

\* C5 as stated: whitespace/period-only inputs and reserved-character-only inputs
\* all map to the fallback.
C5_FallbackForReservedOnly ==
    san_pc # "in" =>
      /\ (\A i \in 1..Len(x) : x[i] \in Whitespace \cup {"."}) => y = video
      /\ (x # <<>> /\ \A i \in 1..Len(x) : x[i] \in INVALID_CHARS) => y = video

\* C5 amended: an input that is empty or made of whitespace and periods only maps
\* to the fallback; an input made of n > 0 reserved characters maps to
\* min(n, 180) underscores.
C5_FallbackForBlankOnly ==
    san_pc # "in" =>
      /\ (\A i \in 1..Len(x) : x[i] \in Whitespace \cup {"."}) => y = video
      /\ (x # <<>> /\ \A i \in 1..Len(x) : x[i] \in INVALID_CHARS) =>
           y = [i \in 1..(IF Len(x) < MAX_LEN THEN Len(x) ELSE MAX_LEN) |-> "_"]

\* a non-empty input of whitespace and periods only has been sanitized
C5_Witness ==
    /\ san_pc = "once"
    /\ Len(x) > 1
    /\ \A i \in 1..Len(x) : x[i] \in Whitespace \cup {"."}
    /\ \E i \in 1..Len(x) : x[i] = "."
    /\ y = video

\* C6: for every input the sanitizer returns a non-empty string of at most 180
\* characters without reserved characters.
C6_OutputIsSafe ==
    san_pc # "in" =>
      /\ y # <<>>
      /\ Len(y) <= MAX_LEN
      /\ \A i \in 1..Len(y) : y[i] \notin INVALID_CHARS

\* an input longer than the limit that holds a reserved character has been sanitized
C6_Witness ==
    /\ san_pc = "once"
    /\ Len(x) > MAX_LEN
    /\ \E i \in 1..Len(x) : x[i] \in INVALID_CHARS
    /\ Len(y) = MAX_LEN

\* the file cannot be opened
Unreadable == ~csv_file.openable

\* a header was detected and no field is a name alias or no field is a url alias
Unresolvable ==
    /\ csv_file.openable
    /\ csv_file.has_header
    /\ \/ \A f \in Range(csv_file.fieldnames) : lower(f) \notin NAME_KEYS
       \/ \A f \in Range(csv_file.fieldnames) : lower(f) \notin URL_KEYS

C8_ExitCode ==
    /\ [](pc = "done" => exit_code = 0 /\ fatal_cause = "none")
    /\ [](exit_code = 0 => pc = "done")
    /\ [](exit_code = 1 <=> pc = "fatal")
    /\ [](exit_code = 1 => fatal_cause \in {"open", "columns", "parse"})
    /\ []((Unreadable \/ Unresolvable) => exit_code # 0)
    /\ [][pc = "body" => exit_code' = exit_code]_vars

\* a run ended with exit code 0 although an entry failed and another was skipped
C8_Witness ==
    /\ pc = "done"
    /\ exit_code = 0
    /\ "failed" \in Range(status)
    /\ "skipped" \in Range(status)

\* C9: entries are handled one at a time in input order; an entry goes from pending
\* to a terminal state in one step and stays there; the capability is invoked at
\* most once per entry; an entry is started only when all earlier ones are terminal.
C9_SequentialOneStep ==
    [][/\ Len(status') = Len(entries')
       /\ Len(entries') >= Len(entries)
       /\ SubSeq(entries', 1, Len(entries)) = entries
       /\ \A i \in 1..Len(status) :
            /\ status[i] \in Terminal => status'[i] = status[i]
            /\ status[i] = "pending" => status'[i] \in Terminal
       /\ \A i \in 1..(Len(status') - 1) : status'[i] \in Terminal
       /\ \A a, b \in 1..Len(ydl_calls') : a < b => ydl_calls'[a] < ydl_calls'[b]
       /\ \A i \in 1..Len(status') :
            (status'[i] \in {"downloaded", "failed"}) <=> (i \in Range(ydl_calls'))]_vars

\* three entries were processed and ended in the three terminal states
C9_Witness ==
    /\ pc = "done"
    /\ Len(entries) = 3
    /\ Range(status) = Terminal

\* C10: with overwrite off, of the entries with the same sanitized base name at most
\* one is downloaded, and every entry after a downloaded one is skipped; a failed
\* entry does not make a later one skipped.
C10_OneDownloadPerBaseName ==
    ~overwrite =>
      \A i, j \in 1..Len(entries) :
        (i < j /\ safe_of(i) = safe_of(j)) =>
          /\ status[i] = "downloaded" => status[j] \in {"pending", "skipped"}
          /\ (status[j] = "skipped" /\ status[i] = "failed") =>
               \E g \in listing : starts_with(g, safe_of(j) \o <<".">>)

====
